---------------------------- MODULE Spec2Model ----------------------------
(***************************************************************************)
(* A model of scripts/fetch_events.py: the scraper that gathers race       *)
(* events from three sites, normalises and deduplicates them and writes    *)
(* them to a JSON file, falling back to a previously written file when no  *)
(* event was gathered.                                                     *)
(*                                                                         *)
(* Text is modelled as a sequence of one-character strings, so that the    *)
(* trimming, whitespace collapsing, glyph replacement, date parsing and    *)
(* JSON escaping of the code are computed, not assumed.                    *)
(***************************************************************************)
EXTENDS Naturals, Sequences, FiniteSets

VARIABLES
    pc,         \* main(): the statement about to run
    fetcher,    \* main(): index of the next fetcher in the tuple of line 211
    events,     \* main(): the local list `events`
    outcome,    \* per fetcher: "pending", "returned", "request_error", "other_error"
    returned,   \* per fetcher: the list its call returned
    fs,         \* the file system: path -> file content
    fs0,        \* the file system as the run found it
    args,       \* the parsed command line: [output, fallback]
    io,         \* every fetcher call, file read and file write, in order
    stdout,     \* the lines printed
    fn,         \* a function applied on its own: its name
    arg,        \* ... its argument
    ret,        \* ... what it returned
    st,         \* ... "called", "written", "returned" or "raised"
    padsYear    \* whether the platform's strftime("%Y") pads years below 1000

mainVars == <<pc, fetcher, events, outcome, returned, fs0, args, io, stdout>>
callVars == <<fn, arg, ret, st, padsYear>>
vars == <<pc, fetcher, events, outcome, returned, fs, fs0, args, io, stdout,
          fn, arg, ret, st, padsYear>>

(***************************************************************************)
(* Bounds of the model.                                                    *)
(***************************************************************************)
\* the longest whitespace run put around the parts of a date text
MaxPad == 2
\* the most events a list handed to dedupe_events or write_events holds
MaxEvents == 3
\* the most items a page holds
MaxItems == 3
\* the most events one fetcher returns
MaxFetched == 2
\* the most events a stored file holds
MaxStored == 2

(***************************************************************************)
(* Text.                                                                   *)
(***************************************************************************)
Whitespace == {" ", "\t"}
Digits == {"0", "1", "2", "3", "4", "5", "6", "7", "8", "9"}

\* int() of one decimal digit
DigitValue(c) ==
    CASE c = "0" -> 0 [] c = "1" -> 1 [] c = "2" -> 2 [] c = "3" -> 3
      [] c = "4" -> 4 [] c = "5" -> 5 [] c = "6" -> 6 [] c = "7" -> 7
      [] c = "8" -> 8 [] c = "9" -> 9

DigitChar(n) ==
    CASE n = 0 -> "0" [] n = 1 -> "1" [] n = 2 -> "2" [] n = 3 -> "3"
      [] n = 4 -> "4" [] n = 5 -> "5" [] n = 6 -> "6" [] n = 7 -> "7"
      [] n = 8 -> "8" [] n = 9 -> "9"

\* int() of a run of decimal digits
RECURSIVE ToInt(_)
ToInt(s) ==
    IF s = <<>> THEN 0
    ELSE 10 * ToInt(SubSeq(s, 1, Len(s) - 1)) + DigitValue(s[Len(s)])

\* str() of a natural number
RECURSIVE ToStr(_)
ToStr(n) ==
    IF n < 10 THEN <<DigitChar(n)>>
    ELSE Append(ToStr(n \div 10), DigitChar(n % 10))

\* the format specification :02d / strftime's %m and %d
RECURSIVE ZeroPad(_, _)
ZeroPad(s, width) ==
    IF Len(s) >= width THEN s ELSE ZeroPad(<<"0">> \o s, width)

RECURSIVE LStrip(_)
LStrip(s) ==
    IF s # <<>> /\ s[1] \in Whitespace THEN LStrip(Tail(s)) ELSE s

RECURSIVE RStrip(_)
RStrip(s) ==
    IF s # <<>> /\ s[Len(s)] \in Whitespace
    THEN RStrip(SubSeq(s, 1, Len(s) - 1)) ELSE s

\* str.strip()
Strip(s) == RStrip(LStrip(s))

\* re.sub(r"\s+", " ", value): every maximal whitespace run becomes one space
RECURSIVE CollapseWhitespace(_)
CollapseWhitespace(s) ==
    IF s = <<>> THEN <<>>
    ELSE IF s[1] \in Whitespace THEN <<" ">> \o CollapseWhitespace(LStrip(s))
    ELSE <<s[1]>> \o CollapseWhitespace(Tail(s))

\* The glyphs U+5E74 (year), U+6708 (month) and U+65E5 (day) are written
\* "NIAN", "YUE" and "RI": each is one character of the text.
\* value.replace(NIAN, "-").replace(YUE, "-").replace(RI, "")
RECURSIVE ReplaceGlyphs(_)
ReplaceGlyphs(s) ==
    IF s = <<>> THEN <<>>
    ELSE IF s[1] \in {"NIAN", "YUE"} THEN <<"-">> \o ReplaceGlyphs(Tail(s))
    ELSE IF s[1] = "RI" THEN ReplaceGlyphs(Tail(s))
    ELSE <<s[1]>> \o ReplaceGlyphs(Tail(s))

\* lines 31-33 of normalize_date: the cleaned value
CleanDate(value) == ReplaceGlyphs(CollapseWhitespace(Strip(value)))

\* the character at position p, or "" past the end
At(s, p) == IF p >= 1 /\ p <= Len(s) THEN s[p] ELSE ""

(***************************************************************************)
(* normalize_date (lines 30-43).                                           *)
(***************************************************************************)
\* DATE_PATTERNS (lines 12-16), each named by its separator
DATE_PATTERNS == <<"-", "/", ".">>

NoDate == [ok |-> FALSE, year |-> 0, month |-> 0, day |-> 0]

IsLeap(y) == (y % 4 = 0 /\ y % 100 # 0) \/ y % 400 = 0

DaysInMonth(y, m) ==
    IF m = 2 THEN (IF IsLeap(y) THEN 29 ELSE 28)
    ELSE IF m \in {4, 6, 9, 11} THEN 30 ELSE 31

\* strptime's %m: 1[0-2]|0[1-9]|[1-9], alternatives tried in that order, the
\* separator having to follow; the length matched at p, 0 when none matches
StrptimeMonthLen(v, p, sep) ==
    IF At(v, p) = "1" /\ At(v, p + 1) \in {"0", "1", "2"} /\ At(v, p + 2) = sep
    THEN 2
    ELSE IF At(v, p) = "0" /\ At(v, p + 1) \in Digits \ {"0"} /\ At(v, p + 2) = sep
    THEN 2
    ELSE IF At(v, p) \in Digits \ {"0"} /\ At(v, p + 1) = sep THEN 1
    ELSE 0

\* strptime's %d: 3[0-1]|[1-2]\d|0[1-9]|[1-9]| [1-9], the first alternative
\* that matches at p
StrptimeDayLen(v, p) ==
    IF At(v, p) = "3" /\ At(v, p + 1) \in {"0", "1"} THEN 2
    ELSE IF At(v, p) \in {"1", "2"} /\ At(v, p + 1) \in Digits THEN 2
    ELSE IF At(v, p) = "0" /\ At(v, p + 1) \in Digits \ {"0"} THEN 2
    ELSE IF At(v, p) \in Digits \ {"0"} THEN 1
    ELSE IF At(v, p) = " " /\ At(v, p + 1) \in Digits \ {"0"} THEN 2
    ELSE 0

\* datetime.strptime(value, "%Y<sep>%m<sep>%d") (line 36): the whole value has
\* to match and to name a day of the calendar; ok is FALSE for a ValueError
Strptime(v, sep) ==
    LET ml == StrptimeMonthLen(v, 6, sep)
        dp == 6 + ml + 1
        dl == StrptimeDayLen(v, dp)
        y == ToInt(SubSeq(v, 1, 4))
        m == ToInt(SubSeq(v, 6, 5 + ml))
        d == ToInt(LStrip(SubSeq(v, dp, dp + dl - 1)))
    IN  IF /\ Len(v) >= 4
           /\ \A i \in 1..4 : v[i] \in Digits
           /\ At(v, 5) = sep
           /\ ml > 0
           /\ dl > 0
           /\ dp + dl - 1 = Len(v)
           /\ y >= 1
           /\ d <= DaysInMonth(y, m)
        THEN [ok |-> TRUE, year |-> y, month |-> m, day |-> d]
        ELSE NoDate

\* strftime("%Y-%m-%d") (line 36): %Y of a year below 1000 is padded to four
\* digits or not, as the platform's C library has it
Strftime(t) ==
    (IF padsYear THEN ZeroPad(ToStr(t.year), 4) ELSE ToStr(t.year))
        \o <<"-">> \o ZeroPad(ToStr(t.month), 2)
        \o <<"-">> \o ZeroPad(ToStr(t.day), 2)

RegexSeparators == {"-", "/", "."}

\* (\d{4})[-/.](\d{1,2})[-/.](\d{1,2}) matched at position p: the lengths of
\* the month and the day groups (greedy), 0 when there is no match at p
RegexMonthLen(v, p) ==
    IF /\ \A i \in p..(p + 3) : At(v, i) \in Digits
       /\ At(v, p + 4) \in RegexSeparators
    THEN IF /\ At(v, p + 5) \in Digits /\ At(v, p + 6) \in Digits
            /\ At(v, p + 7) \in RegexSeparators /\ At(v, p + 8) \in Digits
         THEN 2
         ELSE IF /\ At(v, p + 5) \in Digits
                 /\ At(v, p + 6) \in RegexSeparators /\ At(v, p + 7) \in Digits
         THEN 1
         ELSE 0
    ELSE 0

RegexDayLen(v, q) == IF At(v, q + 1) \in Digits THEN 2 ELSE 1

\* re.search (line 39): the leftmost position with a match, 0 when none
RegexSearch(v) ==
    LET hits == {p \in 1..Len(v) : RegexMonthLen(v, p) > 0}
    IN  IF hits = {} THEN 0
        ELSE CHOOSE p \in hits : \A q \in hits : p <= q

\* lines 41-42: f"{year}-{int(month):02d}-{int(day):02d}" of the match at p
RegexDate(v, p) ==
    LET ml == RegexMonthLen(v, p)
        q == p + 5 + ml + 1
        dl == RegexDayLen(v, q)
    IN  SubSeq(v, p, p + 3)
            \o <<"-">> \o ZeroPad(ToStr(ToInt(SubSeq(v, p + 5, p + 4 + ml))), 2)
            \o <<"-">> \o ZeroPad(ToStr(ToInt(SubSeq(v, q, q + dl - 1))), 2)

\* lines 34-38: the first pattern that parses, 0 when none does
FirstPattern(v) ==
    IF \E i \in 1..Len(DATE_PATTERNS) : Strptime(v, DATE_PATTERNS[i]).ok
    THEN CHOOSE i \in 1..Len(DATE_PATTERNS) :
            /\ Strptime(v, DATE_PATTERNS[i]).ok
            /\ \A j \in 1..(i - 1) : ~Strptime(v, DATE_PATTERNS[j]).ok
    ELSE 0

NormalizeDate(value) ==
    LET v == CleanDate(value)
        i == FirstPattern(v)
        p == RegexSearch(v)
    IN  IF i > 0 THEN Strftime(Strptime(v, DATE_PATTERNS[i]))
        ELSE IF p > 0 THEN RegexDate(v, p)
        ELSE v

NoFile == [kind |-> "missing"]

(***************************************************************************)
(* Event (lines 19-27) and dedupe_events (lines 144-153).                  *)
(***************************************************************************)
Event(name, location, race_date, registration_deadline, registration_open, website, source) ==
    [name |-> name, location |-> location, race_date |-> race_date,
     registration_deadline |-> registration_deadline,
     registration_open |-> registration_open,
     website |-> website, source |-> source]

\* line 148 with the location left out of the key
DedupeKeyWithoutLocation(event) == <<event.name, event.race_date>>

\* line 148
DedupeKey(event) == <<event.name, event.race_date, event.location>>

\* lines 147-152: the loop from position i on, with `seen` and `output`
RECURSIVE DedupeLoop(_, _, _, _)
DedupeLoop(evs, i, seen, output) ==
    IF i > Len(evs) THEN output
    ELSE IF DedupeKey(evs[i]) \in seen
         THEN DedupeLoop(evs, i + 1, seen, output)
         ELSE DedupeLoop(evs, i + 1, seen \cup {DedupeKey(evs[i])},
                         Append(output, evs[i]))

\* dedupe_events without the pass
DedupeEventsSkipped(evs) == evs

DedupeEvents(evs) == DedupeLoop(evs, 1, {}, <<>>)

(***************************************************************************)
(* write_events (lines 173-191) and load_fallback_events (lines 156-170).  *)
(* A file holds nothing ("missing"), text that is no JSON ("garbage") or a *)
(* JSON document; a JSON string is kept as its text between the quotes.    *)
(***************************************************************************)
\* json.dump of a str with ensure_ascii=False (line 190): the quote, the
\* backslash and the control characters are escaped
RECURSIVE JsonEscapeNoBackslash(_)
JsonEscapeNoBackslash(s) ==
    IF s = <<>> THEN <<>>
    ELSE (CASE s[1] = "\"" -> <<"\\", "\"">>
            [] s[1] = "\n" -> <<"\\", "n">>
            [] s[1] = "\t" -> <<"\\", "t">>
            [] OTHER -> <<s[1]>>) \o JsonEscapeNoBackslash(Tail(s))

RECURSIVE JsonEscape(_)
JsonEscape(s) ==
    IF s = <<>> THEN <<>>
    ELSE (CASE s[1] = "\"" -> <<"\\", "\"">>
            [] s[1] = "\\" -> <<"\\", "\\">>
            [] s[1] = "\n" -> <<"\\", "n">>
            [] s[1] = "\t" -> <<"\\", "t">>
            [] OTHER -> <<s[1]>>) \o JsonEscape(Tail(s))

\* json.load of a string's text (line 158)
RECURSIVE JsonUnescape(_)
JsonUnescape(s) ==
    IF s = <<>> THEN <<>>
    ELSE IF s[1] = "\\" /\ Len(s) >= 2
         THEN (CASE s[2] = "n" -> <<"\n">>
                 [] s[2] = "t" -> <<"\t">>
                 [] OTHER -> <<s[2]>>) \o JsonUnescape(SubSeq(s, 3, Len(s)))
         ELSE <<s[1]>> \o JsonUnescape(Tail(s))

\* lines 177-185: one event as a JSON object
EventToJson(event) ==
    [name |-> JsonEscape(event.name),
     location |-> JsonEscape(event.location),
     raceDate |-> JsonEscape(event.race_date),
     registrationDeadline |-> JsonEscape(event.registration_deadline),
     registrationOpen |-> IF event.registration_open THEN "true" ELSE "false",
     website |-> JsonEscape(event.website),
     source |-> JsonEscape(event.source)]

\* datetime.now() of the run (line 175); the stored files are older
Now == 1

\* lines 174-191: the content open(path, "w") and json.dump leave in the file
WrittenFile(evs) ==
    [kind |-> "json", generatedAt |-> Now,
     events |-> [i \in 1..Len(evs) |-> EventToJson(evs[i])]]

WriteEvents(files, path, evs) ==
    [p \in DOMAIN files \cup {path} |->
        IF p = path THEN WrittenFile(evs) ELSE files[p]]

JsonKeys ==
    {"name", "location", "raceDate", "registrationDeadline",
     "registrationOpen", "website", "source"}

\* lines 160-168: one JSON object as an Event
JsonToEvent(item) ==
    Event(JsonUnescape(item.name), JsonUnescape(item.location),
          JsonUnescape(item.raceDate), JsonUnescape(item.registrationDeadline),
          item.registrationOpen = "true",
          JsonUnescape(item.website), JsonUnescape(item.source))

\* lines 157-170: open and json.load raise for a missing file and for text
\* that is no JSON, item[...] raises KeyError for an object without the key
LoadFallbackEvents(files, path) ==
    LET file == IF path \in DOMAIN files THEN files[path] ELSE NoFile
    IN  IF /\ file.kind = "json"
           /\ \A i \in 1..Len(file.events) : JsonKeys \subseteq DOMAIN file.events[i]
        THEN [ok |-> TRUE,
              events |-> [i \in 1..Len(file.events) |-> JsonToEvent(file.events[i])]]
        ELSE [ok |-> FALSE, events |-> <<>>]

(***************************************************************************)
(* guess_open_status (lines 46-48) and extract_generic (lines 51-93).      *)
(* The keywords' glyphs are written as one character each: U+5831 "BAO",   *)
(* U+540D "MING", U+4E2D "ZHONG", U+958B "KAI", U+653E "FANG", U+53EF "KE", *)
(* U+7ACB "LI", U+5373 "JI".                                                *)
(***************************************************************************)
OpenKeywords ==
    {<<"BAO", "MING", "ZHONG">>, <<"KAI", "FANG">>, <<"KE", "BAO", "MING">>,
     <<"LI", "JI", "BAO", "MING">>}

\* keyword in text
Contains(text, keyword) ==
    \E i \in 1..(Len(text) + 1 - Len(keyword)) :
        SubSeq(text, i, i + Len(keyword) - 1) = keyword

GuessOpenStatus(text) ==
    \E keyword \in OpenKeywords : Contains(Strip(text), keyword)

\* select_one found no element
None == [present |-> FALSE, strings |-> <<>>, attrs |-> <<>>]

\* a Tag with its text nodes and its attributes
Tag(strings, attrs) == [present |-> TRUE, strings |-> strings, attrs |-> attrs]

\* bool(element): None is false, a Tag is true whatever it holds
Truthy(el) == el.present

\* Tag.get_text(strip=True): the stripped text nodes that are not empty, joined
RECURSIVE GetText(_)
GetText(strings) ==
    IF strings = <<>> THEN <<>>
    ELSE Strip(strings[1]) \o GetText(Tail(strings))

\* Tag.get("href", "") (line 77)
GetHref(el) == IF "href" \in DOMAIN el.attrs THEN el.attrs.href ELSE <<>>

\* url.rstrip("/") (line 79)
RECURSIVE RStripSlash(_)
RStripSlash(url) ==
    IF url # <<>> /\ url[Len(url)] = "/"
    THEN RStripSlash(SubSeq(url, 1, Len(url) - 1)) ELSE url

\* lines 77-79
Website(url, link_el) ==
    LET website == GetHref(link_el)
    IN  IF website # <<>> /\ website[1] = "/"
        THEN RStripSlash(url) \o website ELSE website

\* line 66 with the deadline required as well
ItemSkippedDeadlineRequired(item) ==
    ~(/\ Truthy(item.name) /\ Truthy(item.race_date) /\ Truthy(item.location)
      /\ Truthy(item.deadline) /\ Truthy(item.link))

\* line 66: `continue` is taken
ItemSkipped(item) ==
    ~(/\ Truthy(item.name) /\ Truthy(item.race_date)
      /\ Truthy(item.location) /\ Truthy(item.link))

\* lines 69-91: the Event of an item that is not skipped
ItemEvent(url, source, item) ==
    Event(GetText(item.name.strings),
          GetText(item.location.strings),
          NormalizeDate(GetText(item.race_date.strings)),
          IF Truthy(item.deadline)
              THEN NormalizeDate(GetText(item.deadline.strings)) ELSE <<>>,
          GuessOpenStatus(IF Truthy(item.status)
                              THEN GetText(item.status.strings) ELSE <<>>),
          Website(url, item.link),
          source)

\* lines 58-93: the loop over the items from position i on
RECURSIVE ExtractLoop(_, _, _, _, _)
ExtractLoop(url, source, items, i, evs) ==
    IF i > Len(items) THEN evs
    ELSE IF ItemSkipped(items[i])
         THEN ExtractLoop(url, source, items, i + 1, evs)
         ELSE ExtractLoop(url, source, items, i + 1,
                          Append(evs, ItemEvent(url, source, items[i])))

\* lines 52-53: requests.get raises for a failed connection and
\* raise_for_status for a status that is not a success, both a RequestException
ExtractGeneric(url, source, response) ==
    IF response.status # "ok"
    THEN [raised |-> "RequestException", events |-> <<>>]
    ELSE [raised |-> "", events |-> ExtractLoop(url, source, response.items, 1, <<>>)]

\* fetch_irunner, fetch_running_biji, fetch_sponet (lines 96-141): the url
\* (each of its parts one character here) and the source name of each
Fetchers ==
    <<[name |-> "fetch_irunner",
       url |-> <<"https://www.irunner.com.tw", "/">>,
       source |-> <<"iRunner">>],
      [name |-> "fetch_running_biji",
       url |-> <<"https://www.running.biji.co", "/", "index.php?q=competition">>,
       source |-> <<"biji">>],
      [name |-> "fetch_sponet",
       url |-> <<"https://www.sponet.tw", "/">>,
       source |-> <<"SPORTNET">>]>>

(***************************************************************************)
(* Functions applied on their own: the state outside the call is idle.     *)
(***************************************************************************)
MainIdle ==
    /\ pc = "idle"
    /\ fetcher = 0
    /\ events = <<>>
    /\ outcome = <<>>
    /\ returned = <<>>
    /\ fs0 = <<>>
    /\ args = [output |-> "", fallback |-> ""]
    /\ io = <<>>
    /\ stdout = <<>>

(***************************************************************************)
(* normalize_date applied to date texts.                                   *)
(***************************************************************************)
Blank(n) == [i \in 1..n |-> " "]
Pads == {Blank(n) : n \in 0..MaxPad} \cup {<<"\t">>}
Fillers == {<<>>, <<"RI">>, <<"x">>}
YearTexts == {<<"2", "0", "2", "4">>, <<"0", "9", "9", "9">>, <<"2", "4">>}
SeparatorPairs ==
    {<<"-", "-">>, <<"/", "/">>, <<".", ".">>, <<"-", "/">>, <<"NIAN", "YUE">>}
MonthTexts == {<<"6">>, <<"0", "6">>, <<"1", "3">>}
DayTexts == {<<"7">>, <<"0", "7">>, <<" ", "7">>, <<"3", "1">>, <<"4", "5">>}
CoreTexts ==
    {y \o <<s[1]>> \o m \o <<s[2]>> \o d :
        y \in YearTexts, s \in SeparatorPairs, m \in MonthTexts, d \in DayTexts}
    \cup Fillers
DateTexts ==
    {g1 \o p1 \o c \o p2 \o g2 :
        g1 \in Fillers, p1 \in Pads, c \in CoreTexts, p2 \in Pads, g2 \in Fillers}

InitDate ==
    /\ MainIdle
    /\ fs = [p \in {} |-> NoFile]
    /\ fn = "normalize_date"
    /\ arg \in DateTexts
    /\ ret = <<>>
    /\ st = "called"
    /\ padsYear \in BOOLEAN

CallNormalizeDate ==
    /\ fn = "normalize_date"
    /\ st = "called"
    /\ ret' = NormalizeDate(arg)
    /\ st' = "returned"
    /\ UNCHANGED <<mainVars, fs, fn, arg, padsYear>>

NextDate == CallNormalizeDate

SpecDate == InitDate /\ [][NextDate]_vars

(***************************************************************************)
(* dedupe_events applied to lists of events.                               *)
(***************************************************************************)
\* all sequences over S of length at most n
SeqsUpTo(S, n) == UNION {[1..k -> S] : k \in 0..n}

TextA == <<"A">>
TextB == <<"B">>
Date1 == <<"2", "0", "2", "4", "-", "0", "5", "-", "1", "0">>
Date2 == <<"2", "0", "2", "4", "-", "0", "6", "-", "0", "1">>
CityX == <<"X">>
CityY == <<"Y">>

\* events that agree or differ in each part of the key and outside it
DedupePool ==
    {Event(TextA, CityX, Date1, <<>>, TRUE, <<"/", "1">>, <<"s", "1">>),
     Event(TextA, CityX, Date1, Date1, FALSE, <<"/", "2">>, <<"s", "2">>),
     Event(TextA, CityY, Date1, <<>>, TRUE, <<"/", "1">>, <<"s", "1">>),
     Event(TextA, CityX, Date2, <<>>, TRUE, <<"/", "1">>, <<"s", "1">>),
     Event(TextB, CityX, Date1, <<>>, TRUE, <<"/", "1">>, <<"s", "1">>)}

InitDedupe ==
    /\ MainIdle
    /\ fs = [p \in {} |-> NoFile]
    /\ fn = "dedupe_events"
    /\ arg \in SeqsUpTo(DedupePool, MaxEvents)
    /\ ret = <<>>
    /\ st = "called"
    /\ padsYear = TRUE

CallDedupeEvents ==
    /\ fn = "dedupe_events"
    /\ st = "called"
    /\ ret' = DedupeEvents(arg)
    /\ st' = "returned"
    /\ UNCHANGED <<mainVars, fs, fn, arg, padsYear>>

NextDedupe == CallDedupeEvents

SpecDedupe == InitDedupe /\ [][NextDedupe]_vars

(***************************************************************************)
(* write_events followed by load_fallback_events on the same path.         *)
(***************************************************************************)
DefaultPath == "data/events.json"

\* events whose texts hold what JSON escapes
TextPool ==
    {Event(TextA, CityX, Date1, <<>>, TRUE, <<"/", "1">>, <<"s", "1">>),
     Event(<<"\"", "A", "\"">>, <<"X", "\\", "n">>, Date1, Date2, FALSE,
           <<"h", ":", "/", "/", "x">>, <<"s", "\t", "2">>),
     Event(<<"A", "\n", "B">>, <<"\\">>, <<"NIAN">>, <<>>, TRUE, <<>>, <<"\\", "\\", "t">>),
     Event(<<>>, <<>>, Date2, Date1, FALSE, <<"\\", "\"">>, <<"s", "1">>)}

OldFile ==
    [kind |-> "json", generatedAt |-> 0,
     events |-> <<EventToJson(Event(TextB, CityY, Date2, <<>>, FALSE, <<>>, <<"s", "0">>))>>]

InitRoundTrip ==
    /\ MainIdle
    /\ fs \in [{DefaultPath} -> {NoFile, OldFile}]
    /\ fn = "write_events"
    /\ arg \in SeqsUpTo(TextPool, MaxEvents)
    /\ ret = <<>>
    /\ st = "called"
    /\ padsYear = TRUE

CallWriteEvents ==
    /\ fn = "write_events"
    /\ st = "called"
    /\ fs' = WriteEvents(fs, DefaultPath, arg)
    /\ st' = "written"
    /\ UNCHANGED <<mainVars, fn, arg, ret, padsYear>>

CallLoadFallbackEvents ==
    /\ fn = "write_events"
    /\ st = "written"
    /\ LET loaded == LoadFallbackEvents(fs, DefaultPath)
       IN  /\ ret' = loaded.events
           /\ st' = IF loaded.ok THEN "returned" ELSE "raised"
    /\ UNCHANGED <<mainVars, fs, fn, arg, padsYear>>

NextRoundTrip == CallWriteEvents \/ CallLoadFallbackEvents

SpecRoundTrip == InitRoundTrip /\ [][NextRoundTrip]_vars

(***************************************************************************)
(* extract_generic applied to pages.                                       *)
(***************************************************************************)
Item(name, race_date, location, deadline, status, link) ==
    [name |-> name, race_date |-> race_date, location |-> location,
     deadline |-> deadline, status |-> status, link |-> link]

NameA == Tag(<<<<" ", "A", " ">>>>, <<>>)
NameB == Tag(<<<<"B">>, <<" ">>>>, <<>>)
NameBlank == Tag(<<<<" ", "\t">>>>, <<>>)
NameEmpty == Tag(<<>>, <<>>)
DateTag == Tag(<<<<"2", "0", "2", "4", "/", "5", "/", "1", "0">>>>, <<>>)
DeadlineTag == Tag(<<<<"2", "0", "2", "4", "NIAN", "4", "YUE", "1", "RI">>>>, <<>>)
CityTag == Tag(<<<<"X", " ">>>>, <<>>)
OpenTag == Tag(<<<<" ", "BAO", "MING", "ZHONG">>>>, <<>>)
ClosedTag == Tag(<<<<"closed">>>>, <<>>)
RelativeLink == Tag(<<>>, [href |-> <<"/", "r", "1">>])
AbsoluteLink == Tag(<<<<"go">>>>, [href |-> <<"https://x", "/", "r">>])
BareLink == Tag(<<>>, <<>>)

ItemPool ==
    {Item(NameA, DateTag, CityTag, DeadlineTag, OpenTag, RelativeLink),
     Item(NameB, DateTag, CityTag, None, None, AbsoluteLink),
     Item(NameA, DateTag, CityTag, None, ClosedTag, BareLink),
     Item(NameBlank, DateTag, CityTag, DeadlineTag, OpenTag, RelativeLink),
     Item(NameEmpty, DateTag, CityTag, None, None, RelativeLink),
     Item(None, DateTag, CityTag, DeadlineTag, OpenTag, RelativeLink),
     Item(NameB, None, CityTag, DeadlineTag, OpenTag, RelativeLink),
     Item(NameA, DateTag, None, DeadlineTag, OpenTag, RelativeLink),
     Item(NameB, DateTag, CityTag, DeadlineTag, OpenTag, None),
     Item(None, None, None, None, None, None)}

Responses ==
    {[status |-> "ok", items |-> items] : items \in SeqsUpTo(ItemPool, MaxItems)}
    \cup {[status |-> s, items |-> <<>>] : s \in {"http_error", "no_connection"}}

InitExtract ==
    /\ MainIdle
    /\ fs = [p \in {} |-> NoFile]
    /\ fn = "extract_generic"
    /\ arg \in {[url |-> Fetchers[i].url, source |-> Fetchers[i].source,
                 response |-> r] : i \in 1..Len(Fetchers), r \in Responses}
    /\ ret = <<>>
    /\ st = "called"
    /\ padsYear \in BOOLEAN

CallExtractGeneric ==
    /\ fn = "extract_generic"
    /\ st = "called"
    /\ LET result == ExtractGeneric(arg.url, arg.source, arg.response)
       IN  /\ ret' = result.events
           /\ st' = IF result.raised = "" THEN "returned" ELSE "raised"
    /\ UNCHANGED <<mainVars, fs, fn, arg, padsYear>>

NextExtract == CallExtractGeneric

SpecExtract == InitExtract /\ [][NextExtract]_vars

(***************************************************************************)
(* main (lines 194-223): one run of the script.                            *)
(***************************************************************************)
OtherPath == "out/events.json"

\* what a fetcher may return: events of its own source
FetchedPool(i) ==
    {Event(n, CityX, Date1, <<>>, TRUE, Fetchers[i].url, Fetchers[i].source) :
        n \in {TextA, TextB}}

\* what a stored file may hold: events of an earlier run
StoredPool ==
    {Event(TextA, CityX, Date1, Date1, FALSE, <<"/", "old">>, Fetchers[1].source),
     Event(TextA, CityX, Date1, Date2, FALSE, <<"/", "older">>, Fetchers[3].source)}

StoredFile(evs) ==
    [kind |-> "json", generatedAt |-> 0,
     events |-> [i \in 1..Len(evs) |-> EventToJson(evs[i])]]

\* a document whose only event lacks the key "website"
IncompleteFile ==
    [kind |-> "json", generatedAt |-> 0,
     events |-> <<[name |-> TextA, location |-> CityX, raceDate |-> Date1,
                   registrationDeadline |-> <<>>, registrationOpen |-> "true",
                   source |-> <<"s">>]>>]

StoredFiles ==
    {NoFile, [kind |-> "garbage"], IncompleteFile}
    \cup {StoredFile(evs) : evs \in SeqsUpTo(StoredPool, MaxStored)}

Init ==
    /\ pc = "fetch"
    /\ fetcher = 1
    /\ events = <<>>
    /\ outcome = [i \in 1..Len(Fetchers) |-> "pending"]
    /\ returned = [i \in 1..Len(Fetchers) |-> <<>>]
    /\ args \in {[output |-> DefaultPath, fallback |-> DefaultPath],
                 [output |-> OtherPath, fallback |-> DefaultPath]}
    /\ fs \in {[p \in {DefaultPath, OtherPath} |->
                  IF p = DefaultPath THEN f ELSE OldFile] : f \in StoredFiles}
    /\ fs0 = fs
    /\ io = <<>>
    /\ stdout = <<>>
    /\ fn = "main"
    /\ arg = <<>>
    /\ ret = <<>>
    /\ st = "called"
    /\ padsYear = TRUE

\* line 211: the next statement after the call of fetcher i
AfterFetch(i) == IF i = Len(Fetchers) THEN "check" ELSE "fetch"

\* line 213: the fetcher returns a list, which extends `events`
FetchReturns ==
    /\ pc = "fetch"
    /\ \E list \in SeqsUpTo(FetchedPool(fetcher), MaxFetched) :
        /\ events' = events \o list
        /\ returned' = [returned EXCEPT ![fetcher] = list]
    /\ outcome' = [outcome EXCEPT ![fetcher] = "returned"]
    /\ io' = Append(io, <<"call", Fetchers[fetcher].name>>)
    /\ fetcher' = fetcher + 1
    /\ pc' = AfterFetch(fetcher)
    /\ UNCHANGED <<fs, fs0, args, stdout, callVars>>

\* lines 214-215 without the except clause
RequestErrorPropagates ==
    /\ pc = "fetch"
    /\ outcome' = [outcome EXCEPT ![fetcher] = "request_error"]
    /\ io' = Append(io, <<"call", Fetchers[fetcher].name>>)
    /\ pc' = "aborted"
    /\ UNCHANGED <<fetcher, events, returned, fs, fs0, args, stdout, callVars>>

\* lines 214-215: the fetcher raises a RequestException, which is reported
FetchRequestError ==
    /\ pc = "fetch"
    /\ outcome' = [outcome EXCEPT ![fetcher] = "request_error"]
    /\ io' = Append(io, <<"call", Fetchers[fetcher].name>>)
    /\ stdout' = Append(stdout, <<"warning", Fetchers[fetcher].name>>)
    /\ fetcher' = fetcher + 1
    /\ pc' = AfterFetch(fetcher)
    /\ UNCHANGED <<events, returned, fs, fs0, args, callVars>>

\* lines 212-215 with `except Exception`
OtherErrorCaught ==
    /\ pc = "fetch"
    /\ outcome' = [outcome EXCEPT ![fetcher] = "other_error"]
    /\ io' = Append(io, <<"call", Fetchers[fetcher].name>>)
    /\ stdout' = Append(stdout, <<"warning", Fetchers[fetcher].name>>)
    /\ fetcher' = fetcher + 1
    /\ pc' = AfterFetch(fetcher)
    /\ UNCHANGED <<events, returned, fs, fs0, args, callVars>>

\* line 213: the fetcher raises an exception that is no RequestException,
\* which no except clause catches
FetchOtherError ==
    /\ pc = "fetch"
    /\ outcome' = [outcome EXCEPT ![fetcher] = "other_error"]
    /\ io' = Append(io, <<"call", Fetchers[fetcher].name>>)
    /\ pc' = "aborted"
    /\ UNCHANGED <<fetcher, events, returned, fs, fs0, args, stdout, callVars>>

\* line 217 as `if len(events) < 2`
FewEvents(evs) == Len(evs) < 2

\* line 217: not events
NoEvents(evs) == evs = <<>>

\* lines 217-218
CheckEvents ==
    /\ pc = "check"
    /\ IF NoEvents(events)
       THEN /\ stdout' = Append(stdout, <<"fallback">>)
            /\ pc' = "load"
       ELSE /\ stdout' = stdout
            /\ pc' = "dedupe"
    /\ UNCHANGED <<fetcher, events, outcome, returned, fs, fs0, args, io, callVars>>

\* line 219: the fallback file is read and replaces `events`
LoadFallback ==
    /\ pc = "load"
    /\ LoadFallbackEvents(fs, args.fallback).ok
    /\ io' = Append(io, <<"read", args.fallback>>)
    /\ events' = LoadFallbackEvents(fs, args.fallback).events
    /\ pc' = "dedupe"
    /\ UNCHANGED <<fetcher, outcome, returned, fs, fs0, args, stdout, callVars>>

\* line 219 with the failure answered by an empty output file
LoadFallbackFailsWritesEmpty ==
    /\ pc = "load"
    /\ ~LoadFallbackEvents(fs, args.fallback).ok
    /\ io' = io \o <<<<"read", args.fallback>>, <<"write", args.output>>>>
    /\ fs' = WriteEvents(fs, args.output, <<>>)
    /\ pc' = "aborted"
    /\ UNCHANGED <<fetcher, events, outcome, returned, fs0, args, stdout, callVars>>

\* line 219: load_fallback_events raises, which nothing catches
LoadFallbackFails ==
    /\ pc = "load"
    /\ ~LoadFallbackEvents(fs, args.fallback).ok
    /\ io' = Append(io, <<"read", args.fallback>>)
    /\ pc' = "aborted"
    /\ UNCHANGED <<fetcher, events, outcome, returned, fs, fs0, args, stdout, callVars>>

\* line 221
Dedupe ==
    /\ pc = "dedupe"
    /\ events' = DedupeEvents(events)
    /\ pc' = "write"
    /\ UNCHANGED <<fetcher, outcome, returned, fs, fs0, args, io, stdout, callVars>>

\* line 222
Write ==
    /\ pc = "write"
    /\ fs' = WriteEvents(fs, args.output, events)
    /\ io' = Append(io, <<"write", args.output>>)
    /\ pc' = "report"
    /\ UNCHANGED <<fetcher, events, outcome, returned, fs0, args, stdout, callVars>>

\* line 223
Report ==
    /\ pc = "report"
    /\ stdout' = Append(stdout, <<"summary", Len(events), args.output>>)
    /\ pc' = "done"
    /\ UNCHANGED <<fetcher, events, outcome, returned, fs, fs0, args, io, callVars>>

Next ==
    \/ FetchReturns
    \/ FetchRequestError
    \/ FetchOtherError
    \/ CheckEvents
    \/ LoadFallback
    \/ LoadFallbackFails
    \/ Dedupe
    \/ Write
    \/ Report

Spec == Init /\ [][Next]_vars

(***************************************************************************)
(* What the properties speak of.                                           *)
(***************************************************************************)
Range(f) == {f[i] : i \in DOMAIN f}

\* the identity of an event: its (name, race_date, location)
IdentityKey(e) == <<e.name, e.race_date, e.location>>

NoSharedKey(list) ==
    \A i, j \in 1..Len(list) :
        IdentityKey(list[i]) = IdentityKey(list[j]) => i = j

\* the elements of list[1..n] whose key no earlier element has, in order
RECURSIVE FirstOccurrencesUpTo(_, _)
FirstOccurrencesUpTo(list, n) ==
    IF n = 0 THEN <<>>
    ELSE IF \E j \in 1..(n - 1) : IdentityKey(list[j]) = IdentityKey(list[n])
         THEN FirstOccurrencesUpTo(list, n - 1)
         ELSE Append(FirstOccurrencesUpTo(list, n - 1), list[n])

FirstOccurrences(list) == FirstOccurrencesUpTo(list, Len(list))

IsCall(entry) == entry[1] = "call"
IsRead(entry) == entry[1] = "read"
IsWrite(entry) == entry[1] = "write"
Calls == SelectSeq(io, IsCall)
Reads == SelectSeq(io, IsRead)
Writes == SelectSeq(io, IsWrite)

\* what the extractors that returned gathered, in the order of the calls
Gathered == returned[1] \o returned[2] \o returned[3]

\* the event list of the fallback file as the run found it
FallbackEvents == LoadFallbackEvents(fs0, args.fallback).events

\* the event list the output file holds
OutputEvents == LoadFallbackEvents(fs, args.output).events

AllRequestErrors == \A i \in 1..Len(Fetchers) : outcome[i] = "request_error"

SummaryLines == SelectSeq(stdout, LAMBDA line : line[1] = "summary")

\* the position of the fetcher whose source an event names
SourceIndex(e) == CHOOSE i \in 1..Len(Fetchers) : Fetchers[i].source = e.source

(***************************************************************************)
(* C1. dedupe_events returns a list in which no two events share the       *)
(* (name, race_date, location) triple and which consists of exactly the    *)
(* first occurrence of each triple of the input, in input order.           *)
(***************************************************************************)
C1_DedupeFirstOccurrences ==
    (fn = "dedupe_events" /\ st = "returned") =>
        /\ NoSharedKey(ret)
        /\ ret = FirstOccurrences(arg)

\* an input with a repeated key between two distinct ones
C1_Witness ==
    /\ fn = "dedupe_events"
    /\ st = "returned"
    /\ Len(arg) = 3
    /\ Len(ret) = 2
    /\ IdentityKey(arg[1]) = IdentityKey(arg[2])
    /\ arg[1] # arg[2]

C3_RequestErrorTolerated ==
    /\ pc = "aborted" =>
         \/ \E i \in 1..Len(Fetchers) : outcome[i] = "other_error"
         \/ Reads # <<>>
    /\ \A i \in 1..Len(Fetchers) :
         outcome[i] = "request_error" =>
            /\ returned[i] = <<>>
            /\ <<"warning", Fetchers[i].name>> \in Range(stdout)
    /\ pc \in {"fetch", "check"} => events = Gathered
    /\ pc = "fetch" =>
         Calls = [i \in 1..(fetcher - 1) |-> <<"call", Fetchers[i].name>>]
    /\ pc \in {"check", "load", "dedupe", "write", "report", "done"} =>
         Calls = [i \in 1..Len(Fetchers) |-> <<"call", Fetchers[i].name>>]
    /\ (pc = "done" /\ Gathered # <<>>) =>
         /\ OutputEvents = FirstOccurrences(Gathered)
         /\ \A e \in Range(OutputEvents) :
              \A i \in 1..Len(Fetchers) :
                 (\E g \in Range(returned[i]) : IdentityKey(g) = IdentityKey(e))
                     => SourceIndex(e) <= i

\* the second extractor failed, and the first and the third returned events
\* with a common key
C3_Witness ==
    /\ pc = "done"
    /\ outcome[2] = "request_error"
    /\ Len(returned[1]) = 2
    /\ Len(returned[3]) = 2
    /\ \E g \in Range(returned[3]) :
          \E h \in Range(returned[1]) : IdentityKey(g) = IdentityKey(h)
    /\ Len(OutputEvents) < Len(Gathered)

(***************************************************************************)
(* C4. The fallback file is read if and only if the event list is empty    *)
(* after all three extractors ran; when it is read its events replace the  *)
(* list, and when an event was gathered the file is never read and every   *)
(* event written is a gathered one.                                        *)
(***************************************************************************)
C4_FallbackIffEmpty ==
    /\ Reads # <<>> =>
         /\ \A i \in 1..Len(Fetchers) : outcome[i] \in {"returned", "request_error"}
         /\ Gathered = <<>>
         /\ Reads = <<<<"read", args.fallback>>>>
    /\ (pc \in {"dedupe", "write", "report", "done"} /\ Gathered = <<>>) =>
         Reads # <<>>
    /\ (pc = "dedupe" /\ Reads # <<>>) => events = FallbackEvents
    /\ Gathered # <<>> =>
         /\ Reads = <<>>
         /\ pc = "done" => Range(OutputEvents) \subseteq Range(Gathered)

\* every extractor returned an empty list, and the fallback was written out
C4_Witness ==
    /\ pc = "done"
    /\ \A i \in 1..Len(Fetchers) : outcome[i] = "returned"
    /\ Reads # <<>>
    /\ OutputEvents # <<>>

(***************************************************************************)
(* C5. An exception of an extractor that is no RequestException ends the   *)
(* run there: no later extractor is called, the fallback is not read and   *)
(* the output file is not written.                                         *)
(***************************************************************************)
C5_OtherErrorAborts ==
    \A i \in 1..Len(Fetchers) :
        outcome[i] = "other_error" =>
            /\ pc = "aborted"
            /\ fetcher = i
            /\ \A j \in (i + 1)..Len(Fetchers) : outcome[j] = "pending"
            /\ Len(Calls) = i
            /\ Reads = <<>>
            /\ Writes = <<>>
            /\ fs = fs0
            /\ ~ENABLED Next

\* the second extractor raised after the first had returned events
C5_Witness ==
    /\ outcome[2] = "other_error"
    /\ returned[1] # <<>>
    /\ pc = "aborted"

(***************************************************************************)
(* C9. The output file is written at most once, after the three extractor  *)
(* calls and after the fallback read if there is one; when the fallback    *)
(* read fails the run ends with no write, and every file, the output file  *)
(* at the fallback's path included, is as it was.                          *)
(***************************************************************************)
C9_WriteLastOrNever ==
    /\ Len(Writes) <= 1
    /\ Writes # <<>> =>
         /\ io[Len(io)] = <<"write", args.output>>
         /\ Len(Calls) = Len(Fetchers)
         /\ Gathered = <<>> => Len(Reads) = 1
    /\ Writes = <<>> => fs = fs0
    /\ (Reads # <<>> /\ ~LoadFallbackEvents(fs0, args.fallback).ok) =>
         /\ pc = "aborted"
         /\ Writes = <<>>
         /\ fs = fs0
         /\ ~ENABLED Next

\* the fallback file, which is the output file too, is no JSON
C9_Witness ==
    /\ pc = "aborted"
    /\ Reads # <<>>
    /\ args.output = args.fallback
    /\ fs0[args.fallback].kind = "garbage"

(***************************************************************************)
(* C6. load_fallback_events after write_events on the same path returns a  *)
(* list equal to the written one, field for field and in the same order.   *)
(***************************************************************************)
C6_RoundTrip ==
    /\ (fn = "write_events" /\ st = "written") =>
         /\ fs[DefaultPath].kind = "json"
         /\ Len(fs[DefaultPath].events) = Len(arg)
    /\ (fn = "write_events" /\ st \notin {"called", "written"}) =>
         /\ st = "returned"
         /\ ret = arg

\* three events were written and read back, texts with escapes among them
C6_Witness ==
    /\ fn = "write_events"
    /\ st = "returned"
    /\ Len(ret) = 3
    /\ \E i \in 1..3 : "\\" \in Range(ret[i].location)
    /\ \E i \in 1..3 : "\"" \in Range(ret[i].name)

(***************************************************************************)
(* C7. Every Event extract_generic returns has a name that is not empty    *)
(* after trimming.                                                         *)
(***************************************************************************)
C7_NamesNotEmpty ==
    (fn = "extract_generic" /\ st = "returned") =>
        \A i \in 1..Len(ret) : Strip(ret[i].name) # <<>>

(***************************************************************************)
(* C8. normalize_date returns YYYY-MM-DD, month and day padded to two      *)
(* digits, when the cleaned input holds a four-digit year, a separator, a  *)
(* month of one or two digits, a separator and a day of one or two digits; *)
(* otherwise it returns the cleaned input, which has no whitespace at its  *)
(* ends and no run of more than one whitespace character.                  *)
(***************************************************************************)
IsCanonicalDate(r) ==
    /\ Len(r) = 10
    /\ \A i \in {1, 2, 3, 4, 6, 7, 9, 10} : r[i] \in Digits
    /\ r[5] = "-"
    /\ r[8] = "-"

HasDatePattern(v) ==
    \E p \in 1..Len(v) : \E ml \in {1, 2} :
        /\ \A i \in p..(p + 3) : At(v, i) \in Digits
        /\ At(v, p + 4) \in {"-", "/", "."}
        /\ \A i \in (p + 5)..(p + 4 + ml) : At(v, i) \in Digits
        /\ At(v, p + 5 + ml) \in {"-", "/", "."}
        /\ At(v, p + 6 + ml) \in Digits

Tidy(r) ==
    /\ r # <<>> => (r[1] \notin Whitespace /\ r[Len(r)] \notin Whitespace)
    /\ \A i \in 1..(Len(r) - 1) : ~(r[i] \in Whitespace /\ r[i + 1] \in Whitespace)

C8_NormalizeDate ==
    (fn = "normalize_date" /\ st # "called") =>
        /\ st = "returned"
        /\ IF HasDatePattern(CleanDate(arg))
           THEN IsCanonicalDate(ret)
           ELSE ret = CleanDate(arg) /\ Tidy(ret)

(***************************************************************************)
(* C10. extract_generic returns one Event for each item that has its name, *)
(* race_date, location and link elements, whether or not it has the        *)
(* deadline and status elements, and none for any other item; it does not  *)
(* raise, and the Events are in the order of their items.                  *)
(***************************************************************************)
HasRequired(item) ==
    /\ item.name.present
    /\ item.race_date.present
    /\ item.location.present
    /\ item.link.present

C10_RequiredElements ==
    (fn = "extract_generic" /\ st # "called" /\ arg.response.status = "ok") =>
        LET kept == SelectSeq(arg.response.items, HasRequired)
        IN  /\ st = "returned"
            /\ Len(ret) = Len(kept)
            /\ \A k \in 1..Len(kept) :
                 /\ ret[k].name = GetText(kept[k].name.strings)
                 /\ ret[k].location = GetText(kept[k].location.strings)
                 /\ ret[k].website = Website(arg.url, kept[k].link)
                 /\ ret[k].source = arg.source

\* a page of three items: one without its name, then two complete ones, the
\* latter without deadline and status, returned in their order
C10_Witness ==
    /\ fn = "extract_generic"
    /\ st = "returned"
    /\ Len(arg.response.items) = 3
    /\ ~arg.response.items[1].name.present
    /\ HasRequired(arg.response.items[2])
    /\ HasRequired(arg.response.items[3])
    /\ ~arg.response.items[3].deadline.present
    /\ ~arg.response.items[3].status.present
    /\ Len(ret) = 2
    /\ ret[1].name # ret[2].name

============================================================================
